---- MODULE Spec2Model ----
(***************************************************************************)
(* Model of three independent units:                                       *)
(*   - ci_group, the context manager of                                    *)
(*     dev/breeze/src/airflow_breeze/utils/ci_group.py;                    *)
(*   - WhylogsConstraintsOperator.execute and                              *)
(*   - WhylogsSummaryDriftOperator.execute of                              *)
(*     airflow/providers/whylogs/operators/whylogs.py.                     *)
(* Python values are written as strings ("True", "False", "None").         *)
(***************************************************************************)
EXTENDS Integers, Sequences, FiniteSets, TLC

VARIABLES
    in_ci_group,        \* the module global _in_ci_group
    GITHUB_ACTIONS,     \* os.environ['GITHUB_ACTIONS'] ("unset" when absent)
    skip_group_putput,  \* what skip_group_putput() returns in this process
    console,            \* the lines get_console().print() has printed
    stack,              \* the ci_group generators suspended at a yield, innermost last
    entries,            \* number of ci_group scopes entered so far
    ev,                 \* the last step taken
    popped,             \* the generators the last step left, innermost first
    failed,             \* whether some wrapped block has raised
    self,               \* the operator's fields, set by __init__
    pc,                 \* the position inside execute()
    local,              \* the local variables of execute()
    trace               \* external calls, log entries and the outcome of execute()

civars == <<in_ci_group, GITHUB_ACTIONS, skip_group_putput, console, stack,
            entries, ev, popped, failed>>
opvars == <<self, pc, local, trace>>
vars == <<civars, opvars>>

-----------------------------------------------------------------------------
(* Bounds *)

MaxDepth == 3
MaxEntries == 4

Titles == {"t1", "t2"}
MessageTypes == {"info", "warning"}
EnvValues == {"unset", "true", "false", "True"}

Last(s) == s[Len(s)]
Front(s) == SubSeq(s, 1, Len(s) - 1)

-----------------------------------------------------------------------------
(* ci_group *)

\* os.environ.get('GITHUB_ACTIONS', 'false')
EnvGet(env) == IF env = "unset" THEN "false" ELSE env

\* f"::group::[{message_type.value}]{title}[/]"
StartMarker(title, message_type) == <<"::group::", message_type, title>>

EndMarker == <<"::endgroup::">>

IsStart(line) == line[1] = "::group::"

IsEnd(line) == line = EndMarker

\* variant of NoOpCond that forgets the GITHUB_ACTIONS test
NoOpCondNoEnv == in_ci_group \/ skip_group_putput

\* the condition of line 38
NoOpCond == in_ci_group \/ skip_group_putput \/ EnvGet(GITHUB_ACTIONS) # "true"

Frame(at, title, message_type) ==
    [pc |-> at, title |-> title, mt |-> message_type,
     before |-> in_ci_group, outLen |-> Len(console), runs |-> 1]

\* The environment and the result of skip_group_putput() (path_utils, which
\* derives it from the command line and the environment) are fixed when the
\* process starts: nothing in ci_group changes them.
InitCIState ==
    /\ in_ci_group = FALSE
    /\ GITHUB_ACTIONS \in EnvValues
    /\ skip_group_putput \in BOOLEAN
    /\ console = <<>>
    /\ stack = <<>>
    /\ entries = 0
    /\ ev = "start"
    /\ popped = <<>>
    /\ failed = FALSE

\* variant of Enter that forgets line 41
EnterNoFlag(title, message_type) ==
    /\ Len(stack) < MaxDepth
    /\ entries < MaxEntries
    /\ entries' = entries + 1
    /\ ev' = "enter"
    /\ popped' = <<>>
    /\ IF NoOpCond
       THEN /\ stack' = Append(stack, Frame("L39", title, message_type))
            /\ UNCHANGED <<in_ci_group, console>>
       ELSE /\ in_ci_group' = in_ci_group
            /\ console' = Append(console, StartMarker(title, message_type))
            /\ stack' = Append(stack, Frame("L43", title, message_type))
    /\ UNCHANGED <<GITHUB_ACTIONS, skip_group_putput, failed>>

\* __enter__: the generator runs to its first yield and the block starts
Enter(title, message_type) ==
    /\ Len(stack) < MaxDepth
    /\ entries < MaxEntries
    /\ entries' = entries + 1
    /\ ev' = "enter"
    /\ popped' = <<>>
    /\ IF NoOpCond
       THEN /\ stack' = Append(stack, Frame("L39", title, message_type))
            /\ UNCHANGED <<in_ci_group, console>>
       ELSE /\ in_ci_group' = TRUE
            /\ console' = Append(console, StartMarker(title, message_type))
            /\ stack' = Append(stack, Frame("L43", title, message_type))
    /\ UNCHANGED <<GITHUB_ACTIONS, skip_group_putput, failed>>

\* variant of Exit that forgets line 45
ExitKeepsFlag ==
    /\ stack # <<>>
    /\ ev' = "exit"
    /\ popped' = <<Last(stack)>>
    /\ stack' = Front(stack)
    /\ IF Last(stack).pc = "L39"
       THEN UNCHANGED <<in_ci_group, console>>
       ELSE /\ console' = Append(console, EndMarker)
            /\ in_ci_group' = in_ci_group
    /\ UNCHANGED <<GITHUB_ACTIONS, skip_group_putput, entries, failed>>

\* variant of Exit that clears the flag on the no-op path too
ExitClearsAlways ==
    /\ stack # <<>>
    /\ ev' = "exit"
    /\ popped' = <<Last(stack)>>
    /\ stack' = Front(stack)
    /\ IF Last(stack).pc = "L39"
       THEN /\ in_ci_group' = FALSE
            /\ UNCHANGED console
       ELSE /\ console' = Append(console, EndMarker)
            /\ in_ci_group' = FALSE
    /\ UNCHANGED <<GITHUB_ACTIONS, skip_group_putput, entries, failed>>

\* __exit__ after the block completed: the innermost generator is resumed
Exit ==
    /\ stack # <<>>
    /\ ev' = "exit"
    /\ popped' = <<Last(stack)>>
    /\ stack' = Front(stack)
    /\ IF Last(stack).pc = "L39"
       THEN UNCHANGED <<in_ci_group, console>>
       ELSE /\ console' = Append(console, EndMarker)
            /\ in_ci_group' = FALSE
    /\ UNCHANGED <<GITHUB_ACTIONS, skip_group_putput, entries, failed>>

\* the generators left by an error that crosses k scopes, innermost first
Unwound(k) == [i \in 1..k |-> stack[Len(stack) + 1 - i]]

\* variant of BlockRaises with lines 44-45 in a finally clause
BlockRaisesFinally(k) ==
    /\ k \in 1..Len(stack)
    /\ ev' = "raise"
    /\ failed' = TRUE
    /\ popped' = Unwound(k)
    /\ stack' = SubSeq(stack, 1, Len(stack) - k)
    /\ IF \E i \in 1..k : Unwound(k)[i].pc = "L43"
       THEN /\ console' = Append(console, EndMarker)
            /\ in_ci_group' = FALSE
       ELSE UNCHANGED <<in_ci_group, console>>
    /\ UNCHANGED <<GITHUB_ACTIONS, skip_group_putput, entries>>

\* the innermost block raises; the error is thrown into each of the k innermost
\* generators at its yield, none of which handles it, and is caught outside them
BlockRaises(k) ==
    /\ k \in 1..Len(stack)
    /\ ev' = "raise"
    /\ failed' = TRUE
    /\ popped' = Unwound(k)
    /\ stack' = SubSeq(stack, 1, Len(stack) - k)
    /\ UNCHANGED <<in_ci_group, console>>
    /\ UNCHANGED <<GITHUB_ACTIONS, skip_group_putput, entries>>

OpIdle ==
    /\ self = [kind |-> "none"]
    /\ pc = "idle"
    /\ local = [kind |-> "none"]
    /\ trace = <<>>

InitCI == InitCIState /\ OpIdle

NextCI ==
    \/ \E title \in Titles, message_type \in MessageTypes :
           Enter(title, message_type) /\ UNCHANGED opvars
    \/ Exit /\ UNCHANGED opvars
    \/ \E k \in 1..MaxDepth : BlockRaises(k) /\ UNCHANGED opvars

SpecCI == InitCI /\ [][NextCI]_vars

-----------------------------------------------------------------------------
(* Properties of ci_group *)

\* the scope of generator f was entered with GITHUB_ACTIONS equal to "true",
\* no skip override and no group active
MarkerCase(f) == ~f.before /\ ~skip_group_putput /\ GITHUB_ACTIONS = "true"

NoOpCase(f) == f.before \/ skip_group_putput \/ GITHUB_ACTIONS # "true"

Starts == Cardinality({i \in DOMAIN console : IsStart(console[i])})

Ends == Cardinality({i \in DOMAIN console : IsEnd(console[i])})

MarkerGroupOpen == \E i \in DOMAIN stack : stack[i].pc = "L43"

C5_MarkerScope ==
    /\ \A i \in DOMAIN stack :
           MarkerCase(stack[i]) =>
               /\ stack[i].before = FALSE
               /\ in_ci_group = TRUE
               /\ SubSeq(console, stack[i].outLen + 1, Len(console))
                      = <<StartMarker(stack[i].title, stack[i].mt)>>
    /\ (ev = "exit" /\ MarkerCase(popped[1])) =>
           /\ SubSeq(console, popped[1].outLen + 1, Len(console))
                  = <<StartMarker(popped[1].title, popped[1].mt), EndMarker>>
           /\ in_ci_group = FALSE

C5_Witness ==
    /\ ev = "exit"
    /\ MarkerCase(popped[1])
    /\ Len(console) = 4

\* C6: as long as no block has raised, a scope entered while a group is active
\* prints nothing, the printed markers alternate start, end, start, end, and
\* the number of start markers minus the number of end markers is 0 or 1, and
\* is 1 exactly when a marker-printing group is open.
C6_MarkersAlternate ==
    ~failed =>
        /\ \A i \in DOMAIN stack :
               stack[i].before => Len(console) = stack[i].outLen
        /\ \A i \in DOMAIN console :
               IF i % 2 = 1 THEN IsStart(console[i]) ELSE IsEnd(console[i])
        /\ Starts - Ends \in {0, 1}
        /\ (Starts - Ends = 1) <=> MarkerGroupOpen

C6_Witness ==
    /\ ~failed
    /\ ev = "enter"
    /\ Len(stack) = 2
    /\ stack[2].before
    /\ Starts = 2
    /\ Ends = 1

Orphaned == in_ci_group /\ ~MarkerGroupOpen

C9Step ==
    /\ (ev' = "raise" /\ \E i \in DOMAIN popped' : popped'[i].pc = "L43") =>
           /\ console' = console
           /\ in_ci_group' = TRUE
           /\ Orphaned'
    /\ Orphaned =>
           /\ Orphaned'
           /\ console' = console
           /\ ev' = "enter" => Last(stack').pc = "L39"

\* C9: when the block of a marker-printing scope raises, no end marker is
\* printed and the flag stays true; from then on every entry is a no-op,
\* nothing more is printed and the flag is never cleared.
C9_FlagStuckAfterError == [][C9Step]_vars

C9_Witness ==
    /\ Orphaned
    /\ ev = "enter"
    /\ Len(stack) = 1
    /\ Last(console) # EndMarker

-----------------------------------------------------------------------------
(* The whylogs operators *)

Readers == {"None", "local"}
Writers == {"local", "s3"}
Paths == {"None", "p1"}
DriftPaths == {"p1", "p2"}
ReportPaths == {"r1", "r2"}
MetricConstraints == {"None", "c1"}
ConstraintSets == {"None", "cs1"}
Flags == {"True", "False", "None"}
Errors == {"FileNotFoundError", "PermissionError"}

\* bool(x) of a Python value
Truthy(x) == x = "True"

\* an external call, a log entry or the outcome of execute(); r is what the
\* call did: "ok", or the error it raised
Event(op, a, b, cs, r) == [op |-> op, a |-> a, b |-> b, cs |-> cs, r |-> r]

\* why.reader(reader).read(path=path).view()
ReadCall(reader, path, r) == Event("read", reader, path, <<>>, r)

ProfileView(reader, path) == <<reader, path>>

\* ConstraintsBuilder(profile_view), add_constraint(constraint), build()
Built(profile_view, constraint) == <<"built">> \o profile_view \o <<constraint>>

Prebuilt(constraints) == <<"prebuilt", constraints>>

\* self.log.<level>(constraints.report())
LogReport(level, cs) == Event("log", level, "report", cs, "ok")

Raise(exc) == Event("raise", exc, "", <<>>, "ok")

Return(value) == Event("return", value, "", <<>>, "ok")

InitConstraintsOp ==
    /\ self \in [kind : {"constraints"}, profile_path : Paths, reader : Readers,
                 constraint : MetricConstraints, constraints : ConstraintSets,
                 break_pipeline : Flags]
    /\ pc = "L195"
    /\ local = [constraints |-> <<>>, profile_view |-> <<>>, result |-> "unset"]
    /\ trace = <<>>

\* variant of UsePrebuilt that reads the profile all the same
UsePrebuiltReads ==
    /\ pc = "L195"
    /\ self.constraints # "None"
    /\ trace' = Append(trace, ReadCall(self.reader, self.profile_path, "ok"))
    /\ local' = [local EXCEPT !.constraints = Prebuilt(self.constraints)]
    /\ pc' = "L196"
    /\ UNCHANGED self

\* _get_or_create_constraints, else branch
UsePrebuilt ==
    /\ pc = "L195"
    /\ self.constraints # "None"
    /\ local' = [local EXCEPT !.constraints = Prebuilt(self.constraints)]
    /\ pc' = "L196"
    /\ UNCHANGED <<self, trace>>

\* _get_or_create_constraints, line 186
ReadProfile ==
    /\ pc = "L195"
    /\ self.constraints = "None"
    /\ trace' = Append(trace, ReadCall(self.reader, self.profile_path, "ok"))
    /\ local' = [local EXCEPT
                    !.profile_view = ProfileView(self.reader, self.profile_path)]
    /\ pc' = "L187"
    /\ UNCHANGED self

ReadProfileFails(e) ==
    /\ pc = "L195"
    /\ self.constraints = "None"
    /\ trace' = trace \o <<ReadCall(self.reader, self.profile_path, e), Raise(e)>>
    /\ pc' = "done"
    /\ UNCHANGED <<self, local>>

\* _get_or_create_constraints, lines 187-190
BuildConstraints ==
    /\ pc = "L187"
    /\ trace' = Append(trace, Event("build", self.constraint, "", local.profile_view, "ok"))
    /\ local' = [local EXCEPT
                    !.constraints = Built(local.profile_view, self.constraint)]
    /\ pc' = "L196"
    /\ UNCHANGED self

BuildConstraintsFails(e) ==
    /\ pc = "L187"
    /\ trace' = trace \o <<Event("build", self.constraint, "", local.profile_view, e),
                           Raise(e)>>
    /\ pc' = "done"
    /\ UNCHANGED <<self, local>>

\* line 196
Validate(result) ==
    /\ pc = "L196"
    /\ trace' = Append(trace, Event("validate", "", "", local.constraints, "ok"))
    /\ local' = [local EXCEPT !.result = result]
    /\ pc' = "L197"
    /\ UNCHANGED self

ValidateFails(e) ==
    /\ pc = "L196"
    /\ trace' = trace \o <<Event("validate", "", "", local.constraints, e), Raise(e)>>
    /\ pc' = "done"
    /\ UNCHANGED <<self, local>>

\* variant of BreaksPipeline that forgets the result
BreaksPipelineAnyResult == Truthy(self.break_pipeline)

\* the condition of line 197
BreaksPipeline == local.result = "False" /\ Truthy(self.break_pipeline)

\* the condition of line 200
WarnsOnly == local.result = "False" /\ ~Truthy(self.break_pipeline)

\* line 198
LogError ==
    /\ pc = "L197"
    /\ BreaksPipeline
    /\ trace' = Append(trace, LogReport("error", local.constraints))
    /\ pc' = "L199"
    /\ UNCHANGED <<self, local>>

\* variant of RaiseFail that returns instead of raising
RaiseFailReturns ==
    /\ pc = "L199"
    /\ trace' = Append(trace, Return(local.result))
    /\ pc' = "done"
    /\ UNCHANGED <<self, local>>

\* line 199
RaiseFail ==
    /\ pc = "L199"
    /\ trace' = Append(trace, Raise("AirflowFailException"))
    /\ pc' = "done"
    /\ UNCHANGED <<self, local>>

\* variant of LogWarning that logs at info level
LogWarningAsInfo ==
    /\ pc = "L197"
    /\ ~BreaksPipeline
    /\ WarnsOnly
    /\ trace' = Append(trace, LogReport("info", local.constraints))
    /\ pc' = "L204"
    /\ UNCHANGED <<self, local>>

\* line 201
LogWarning ==
    /\ pc = "L197"
    /\ ~BreaksPipeline
    /\ WarnsOnly
    /\ trace' = Append(trace, LogReport("warning", local.constraints))
    /\ pc' = "L204"
    /\ UNCHANGED <<self, local>>

\* line 203
LogInfo ==
    /\ pc = "L197"
    /\ ~BreaksPipeline
    /\ ~WarnsOnly
    /\ trace' = Append(trace, LogReport("info", local.constraints))
    /\ pc' = "L204"
    /\ UNCHANGED <<self, local>>

\* line 204
ReturnResult ==
    /\ pc = "L204"
    /\ trace' = Append(trace, Return(local.result))
    /\ pc' = "done"
    /\ UNCHANGED <<self, local>>

CIIdle ==
    /\ in_ci_group = FALSE
    /\ GITHUB_ACTIONS = "unset"
    /\ skip_group_putput = FALSE
    /\ console = <<>>
    /\ stack = <<>>
    /\ entries = 0
    /\ ev = "start"
    /\ popped = <<>>
    /\ failed = FALSE

InitConstraints == InitConstraintsOp /\ CIIdle

NextConstraints ==
    \/ UsePrebuilt /\ UNCHANGED civars
    \/ ReadProfile /\ UNCHANGED civars
    \/ \E e \in Errors : ReadProfileFails(e) /\ UNCHANGED civars
    \/ BuildConstraints /\ UNCHANGED civars
    \/ \E e \in Errors : BuildConstraintsFails(e) /\ UNCHANGED civars
    \/ \E result \in {"True", "False"} : Validate(result) /\ UNCHANGED civars
    \/ \E e \in Errors : ValidateFails(e) /\ UNCHANGED civars
    \/ LogError /\ UNCHANGED civars
    \/ RaiseFail /\ UNCHANGED civars
    \/ LogWarning /\ UNCHANGED civars
    \/ LogInfo /\ UNCHANGED civars
    \/ ReturnResult /\ UNCHANGED civars

SpecConstraints == InitConstraints /\ [][NextConstraints]_vars

-----------------------------------------------------------------------------
(* WhylogsSummaryDriftOperator.execute *)

InitDriftOp ==
    /\ self \in [kind : {"drift"}, target_profile_path : DriftPaths,
                 reference_profile_path : DriftPaths, write_report_path : ReportPaths,
                 reader : Readers, writer : Writers]
    /\ pc = "L74"
    /\ local = [reference_view |-> <<>>, target_view |-> <<>>]
    /\ trace = <<>>

\* SummaryDriftReport(ref_view=reference_view, target_view=target_view)
SummaryDriftReport(reference_view, target_view) == reference_view \o target_view

\* report.writer(writer).write(dest=dest)
WriteCall(writer, dest, report, r) == Event("write", writer, dest, report, r)

\* self.log.info(f"... successfully written to {self.writer}")
LogWritten(writer) == Event("log", "info", writer, <<>>, "ok")

\* line 74
ReadReference ==
    /\ pc = "L74"
    /\ trace' = Append(trace, ReadCall(self.reader, self.reference_profile_path, "ok"))
    /\ local' = [local EXCEPT
                    !.reference_view = ProfileView(self.reader, self.reference_profile_path)]
    /\ pc' = "L75"
    /\ UNCHANGED self

\* variant of ReadReferenceFails that swallows the error and goes on
ReadReferenceFailsSwallowed(e) ==
    /\ pc = "L74"
    /\ trace' = Append(trace, ReadCall(self.reader, self.reference_profile_path, e))
    /\ pc' = "L75"
    /\ UNCHANGED <<self, local>>

\* line 74, the read raises
ReadReferenceFails(e) ==
    /\ pc = "L74"
    /\ trace' = trace \o <<ReadCall(self.reader, self.reference_profile_path, e),
                           Raise(e)>>
    /\ pc' = "done"
    /\ UNCHANGED <<self, local>>

\* line 75
ReadTarget ==
    /\ pc = "L75"
    /\ trace' = Append(trace, ReadCall(self.reader, self.target_profile_path, "ok"))
    /\ local' = [local EXCEPT
                    !.target_view = ProfileView(self.reader, self.target_profile_path)]
    /\ pc' = "L78"
    /\ UNCHANGED self

ReadTargetFails(e) ==
    /\ pc = "L75"
    /\ trace' = trace \o <<ReadCall(self.reader, self.target_profile_path, e), Raise(e)>>
    /\ pc' = "done"
    /\ UNCHANGED <<self, local>>

\* lines 77-78
WriteReport ==
    /\ pc = "L78"
    /\ trace' = Append(trace,
                       WriteCall(self.writer, self.write_report_path,
                                 SummaryDriftReport(local.reference_view, local.target_view),
                                 "ok"))
    /\ pc' = "L79"
    /\ UNCHANGED <<self, local>>

WriteReportFails(e) ==
    /\ pc = "L78"
    /\ trace' = trace \o <<WriteCall(self.writer, self.write_report_path,
                                     SummaryDriftReport(local.reference_view,
                                                        local.target_view), e),
                           Raise(e)>>
    /\ pc' = "done"
    /\ UNCHANGED <<self, local>>

\* line 79
LogDriftWritten ==
    /\ pc = "L79"
    /\ trace' = Append(trace, LogWritten(self.writer))
    /\ pc' = "end"
    /\ UNCHANGED <<self, local>>

\* falling off the end of execute()
ReturnNone ==
    /\ pc = "end"
    /\ trace' = Append(trace, Return("None"))
    /\ pc' = "done"
    /\ UNCHANGED <<self, local>>

InitDrift == InitDriftOp /\ CIIdle

NextDrift ==
    \/ ReadReference /\ UNCHANGED civars
    \/ \E e \in Errors : ReadReferenceFails(e) /\ UNCHANGED civars
    \/ ReadTarget /\ UNCHANGED civars
    \/ \E e \in Errors : ReadTargetFails(e) /\ UNCHANGED civars
    \/ WriteReport /\ UNCHANGED civars
    \/ \E e \in Errors : WriteReportFails(e) /\ UNCHANGED civars
    \/ LogDriftWritten /\ UNCHANGED civars
    \/ ReturnNone /\ UNCHANGED civars

SpecDrift == InitDrift /\ [][NextDrift]_vars

-----------------------------------------------------------------------------
(* Properties of WhylogsConstraintsOperator.execute *)

IsConstraintsOp == self.kind = "constraints"

Logs == SelectSeq(trace, LAMBDA x : x.op = "log")

Outcomes == SelectSeq(trace, LAMBDA x : x.op \in {"raise", "return"})

Count(op) == Len(SelectSeq(trace, LAMBDA x : x.op = op))

\* validate() has returned
Validated == IsConstraintsOp /\ local.result # "unset"

\* C1: once validate() has yielded false with break_pipeline set, execute()
\* emits the report exactly once, at error level, and then raises
\* AirflowFailException: nothing is logged before the branch is taken, the
\* error entry is the only log entry and directly precedes the raise, and
\* nothing is returned.
C1_ErrorThenFail ==
    (Validated /\ local.result = "False" /\ self.break_pipeline = "True") =>
        \/ /\ pc = "L197"
           /\ Logs = <<>>
           /\ Outcomes = <<>>
        \/ /\ pc = "L199"
           /\ Logs = <<LogReport("error", local.constraints)>>
           /\ Last(trace) = LogReport("error", local.constraints)
           /\ Outcomes = <<>>
        \/ /\ pc = "done"
           /\ Logs = <<LogReport("error", local.constraints)>>
           /\ Outcomes = <<Raise("AirflowFailException")>>
           /\ SubSeq(trace, Len(trace) - 1, Len(trace))
                  = <<LogReport("error", local.constraints),
                      Raise("AirflowFailException")>>

C1_Witness ==
    /\ Validated
    /\ local.result = "False"
    /\ self.break_pipeline = "True"
    /\ pc = "done"

\* C2: once validate() has yielded false with break_pipeline not set (False
\* or None), execute() emits the report exactly once, at warning level, raises
\* nothing and returns false.
C2_WarnAndReturnFalse ==
    (Validated /\ local.result = "False" /\ self.break_pipeline # "True") =>
        \/ /\ pc = "L197"
           /\ Logs = <<>>
           /\ Outcomes = <<>>
        \/ /\ pc = "L204"
           /\ Logs = <<LogReport("warning", local.constraints)>>
           /\ Outcomes = <<>>
        \/ /\ pc = "done"
           /\ Logs = <<LogReport("warning", local.constraints)>>
           /\ Outcomes = <<Return("False")>>
           /\ Last(trace) = Return("False")

C2_Witness ==
    /\ Validated
    /\ local.result = "False"
    /\ self.break_pipeline = "None"
    /\ pc = "done"

\* C3: once validate() has yielded true, execute() emits the report exactly
\* once, at info level, raises nothing and returns true, whatever
\* break_pipeline is.
C3_InfoAndReturnTrue ==
    (Validated /\ local.result = "True") =>
        \/ /\ pc = "L197"
           /\ Logs = <<>>
           /\ Outcomes = <<>>
        \/ /\ pc = "L204"
           /\ Logs = <<LogReport("info", local.constraints)>>
           /\ Outcomes = <<>>
        \/ /\ pc = "done"
           /\ Logs = <<LogReport("info", local.constraints)>>
           /\ Outcomes = <<Return("True")>>
           /\ Last(trace) = Return("True")

C3_Witness ==
    /\ Validated
    /\ local.result = "True"
    /\ self.break_pipeline = "True"
    /\ pc = "done"

\* the constraint set was resolved: neither the read nor the build failed
Resolved == local.constraints # <<>>

\* how the set is resolved and evaluated, whatever the outcome of the calls:
\* a pre-built set is used as is with no read; otherwise one read through the
\* configured reader and one build from that profile with the supplied
\* constraint; validate() is called on that set, before any log entry.
ResolvedAsConfigured ==
    /\ Count("read") <= 1
    /\ Count("build") <= 1
    /\ self.constraints # "None" =>
           /\ Count("read") = 0
           /\ Count("build") = 0
           /\ pc # "L195" => local.constraints = Prebuilt(self.constraints)
    /\ self.constraints = "None" =>
           /\ pc # "L195" =>
                  /\ Count("read") = 1
                  /\ trace[1].op = "read"
                  /\ trace[1].a = self.reader
                  /\ trace[1].b = self.profile_path
           /\ Resolved =>
                  /\ trace[2] = Event("build", self.constraint, "",
                                      ProfileView(self.reader, self.profile_path), "ok")
                  /\ local.constraints
                         = Built(ProfileView(self.reader, self.profile_path),
                                 self.constraint)
    /\ \A i \in DOMAIN trace :
           /\ trace[i].op = "validate" => trace[i].cs = local.constraints
           /\ trace[i].op = "log" =>
                  \E j \in 1..(i - 1) : trace[j].op = "validate"

\* C10 as claimed: every invocation resolves the set as configured and calls
\* validate() exactly once.
C10_ValidatedExactlyOnce ==
    IsConstraintsOp =>
        /\ ResolvedAsConfigured
        /\ pc = "done" => Count("validate") = 1

\* C10 as amended: every invocation resolves the set as configured; validate()
\* is called exactly once when the set was resolved, and never when the
\* profile read or the build failed, in which case nothing is logged.
C10_ValidatedOnceIfResolved ==
    IsConstraintsOp =>
        /\ ResolvedAsConfigured
        /\ Count("validate") <= 1
        /\ (pc = "done" /\ Resolved) => Count("validate") = 1
        /\ (pc = "done" /\ ~Resolved) =>
               /\ Count("validate") = 0
               /\ Logs = <<>>
               /\ Last(trace).op = "raise"

C10_Witness ==
    /\ IsConstraintsOp
    /\ pc = "done"
    /\ self.constraints = "None"
    /\ Resolved
    /\ Count("read") = 1
    /\ Count("validate") = 1
    /\ Len(Logs) = 1

-----------------------------------------------------------------------------
(* Properties of WhylogsSummaryDriftOperator.execute *)

\* the calls of a run in which nothing fails
FullRun ==
    <<ReadCall(self.reader, self.reference_profile_path, "ok"),
      ReadCall(self.reader, self.target_profile_path, "ok"),
      WriteCall(self.writer, self.write_report_path,
                SummaryDriftReport(ProfileView(self.reader, self.reference_profile_path),
                                   ProfileView(self.reader, self.target_profile_path)),
                "ok"),
      LogWritten(self.writer),
      Return("None")>>

\* the run in which call k (1, 2: the reads; 3: the write) fails with e
FailedRun(k, e) ==
    SubSeq(FullRun, 1, k - 1) \o <<[FullRun[k] EXCEPT !.r = e], Raise(e)>>

\* C8: execute() reads the reference profile, then the target profile, writes
\* the report once and then logs once at info level; when a read or the write
\* fails, the error it raised is what execute() raises, and nothing runs after
\* it: no write after a failed read, no log after a failed read or write, no
\* second attempt.
C8_DriftRun ==
    self.kind = "drift" =>
        IF pc = "done"
        THEN \/ trace = FullRun
             \/ \E k \in 1..3, e \in Errors : trace = FailedRun(k, e)
        ELSE /\ Len(trace) < Len(FullRun)
             /\ trace = SubSeq(FullRun, 1, Len(trace))

C8_Witness ==
    /\ self.kind = "drift"
    /\ pc = "done"
    /\ Len(trace) = 3
    /\ trace[2].op = "read"
    /\ trace[2].r = "PermissionError"
    /\ self.reference_profile_path # self.target_profile_path

====
